---- MODULE Spec2Model ----
(***************************************************************************)
(* BioSim GUI (src/src/biosim/gui.py) and the ECOL100 drawing window       *)
(* (src/ecol100/src/main.py): the island grid, its editing and             *)
(* normalisation, and the tab workflow of the main window.                 *)
(*                                                                         *)
(* An island is a sequence of rows, a row a sequence of one-letter terrain *)
(* codes; sequences are 1-indexed here, Python's lists and strings are     *)
(* 0-indexed, so Python's island[j][i] is island[j + 1][i + 1].            *)
(***************************************************************************)
EXTENDS Integers, Sequences, FiniteSets, TLC

VARIABLES
    app,          \* which program runs: "biosim" (gui.py) or "ecol100" (main.py)
    island,       \* VARIABLE["island"]
    terrain,      \* Map.terrain of the Draw page: the selected brush
    tab,          \* Main.tabs.currentIndex()
    previous,     \* Main.previous
    biosim,       \* VARIABLE["biosim"]: <<>> is None, <<b>> holds the BioSim object b
    history,      \* VARIABLE["history"]
    modified,     \* VARIABLE["modified"]: the audit log, a dict in insertion order
    selected,     \* VARIABLE["selected"]
    params,       \* the parameters in effect in the classes Herbivore and Carnivore
    dialog,       \* the message box of the last handler: "none", or the button pressed
                  \* in the confirmation ("Ok", "Cancel"), or the message shown
    figure,       \* History.fig: what the figure of the History page holds
    raised,       \* the exception that left the last handler uncaught, or "none"
    runs,         \* the calls of BioSim.simulate in flight, the innermost last
    edits,        \* number of operations counted against the budget of the specification
    stroke,       \* <<i, j>>: column and row of the last stroke a specification recorded
    ecol,         \* ECOL100: Draw.island
    ecolSelected  \* ECOL100: Draw.selected

vars == <<app, island, terrain, tab, previous, biosim, history, modified, selected,
          params, dialog, figure, raised, runs, edits, stroke, ecol, ecolSelected>>

-----------------------------------------------------------------------------
(* Program constants. *)

InitSide == 21          \* side of the default island
MaxSide == 44           \* Draw.bigger returns at this width or above
MinSide == 4            \* Draw.smaller returns at this width or below
EcolInitSide == 10      \* ECOL100: side of the default island
EcolMaxSide == 26       \* ECOL100: Draw.bigger returns at this width or above
EcolMinSide == 4        \* ECOL100: Draw.smaller returns at this width or below

Terrains == {"W", "L", "H", "M"}
EcolTerrains == {"W", "H", "L", "D"}
Ecotypes == {"R-selected", "K-selected"}

(* Bounds of the model. *)

MaxGridSide == 5        \* largest side of the grids SpecShrink starts from
MaxLand == 2            \* most painted cells of a grid SpecShrink starts from
MaxEdits == 2           \* most editing operations on the Draw page in SpecDraw
MaxStrokes == 1         \* most paint strokes in SpecResize
MaxYear == 1            \* the year and the iterations of a simulation are capped here
MaxBatches == 1         \* most batches of animals placed on one simulation
MaxRuns == 1            \* most calls of BioSim.simulate in flight at once

-----------------------------------------------------------------------------
(* Grids. *)

WaterRow(n) == [k \in 1..n |-> "W"]

WaterGrid(rows, cols) == [r \in 1..rows |-> WaterRow(cols)]

\* all(cell == "W" for cell in row)
AllWater(row) == \A k \in 1..Len(row) : row[k] = "W"

\* all(cell == "W" for row in island for cell in row)
IsWater(g) == \A r \in 1..Len(g) : AllWater(g[r])

\* any(cell != "W" for row in island for cell in row)
HasLand(g) == \E r \in 1..Len(g) : \E c \in 1..Len(g[r]) : g[r][c] # "W"

\* [''.join(row) for row in zip(*island)]
Transpose(g) ==
    IF g = <<>> THEN <<>>
    ELSE [c \in 1..Len(g[1]) |-> [r \in 1..Len(g) |-> g[r][c]]]

\* island[:-1]
Front(s) == SubSeq(s, 1, Len(s) - 1)

\* The mutant of TrimTop: an `if` in place of the `while`.
TrimTopOnce(g) ==
    IF Len(g) >= 2 /\ AllWater(g[1]) /\ AllWater(g[2]) THEN Tail(g) ELSE g

\* while all-water island[0] and all-water island[1]: island = island[1:]
\* (Python raises IndexError on island[1] when one all-water row is left;
\* that needs an all-water island, which shrink returns before the loop.)
RECURSIVE TrimTop(_)
TrimTop(g) ==
    IF Len(g) >= 2 /\ AllWater(g[1]) /\ AllWater(g[2]) THEN TrimTop(Tail(g)) ELSE g

\* The mutant of TrimBottom: `or` in place of `and`.
RECURSIVE TrimBottomOr(_)
TrimBottomOr(g) ==
    IF Len(g) >= 2 /\ (AllWater(g[Len(g)]) \/ AllWater(g[Len(g) - 1]))
    THEN TrimBottomOr(Front(g)) ELSE g

\* j = len(island) - 1
\* while all-water island[j] and all-water island[j-1]: island = island[:-1]; j -= 1
RECURSIVE TrimBottom(_)
TrimBottom(g) ==
    IF Len(g) >= 2 /\ AllWater(g[Len(g)]) /\ AllWater(g[Len(g) - 1])
    THEN TrimBottom(Front(g)) ELSE g

\* One pass of the for-loop of shrink: transpose, trim the top, trim the bottom.
TrimPass(g) == TrimBottom(TrimTop(Transpose(g)))

\* rows < cols: i = 1, 2, ...; odd i adds a water row on top, even i at the bottom.
RECURSIVE PadRows(_, _)
PadRows(g, i) ==
    IF Len(g) < Len(g[1])
    THEN PadRows(IF i % 2 = 0 THEN Append(g, WaterRow(Len(g[1])))
                 ELSE <<WaterRow(Len(g[1]))>> \o g, i + 1)
    ELSE g

\* The mutant of PadCols: odd j adds the water cell at the start of every row.
RECURSIVE PadColsLeftFirst(_, _)
PadColsLeftFirst(g, j) ==
    IF Len(g[1]) < Len(g)
    THEN PadColsLeftFirst(IF j % 2 = 0 THEN [r \in 1..Len(g) |-> Append(g[r], "W")]
                          ELSE [r \in 1..Len(g) |-> <<"W">> \o g[r]], j + 1)
    ELSE g

\* cols < rows: j = 1, 2, ...; odd j adds a water cell at the end of every row,
\* even j at the start.
RECURSIVE PadCols(_, _)
PadCols(g, j) ==
    IF Len(g[1]) < Len(g)
    THEN PadCols(IF j % 2 = 0 THEN [r \in 1..Len(g) |-> <<"W">> \o g[r]]
                 ELSE [r \in 1..Len(g) |-> Append(g[r], "W")], j + 1)
    ELSE g

\* The mutant of Pad: no padding, the trimmed grid is returned as it is.
PadNone(g) == g

\* The tail of shrink: the trimmed grid made square.
Pad(g) ==
    IF Len(g) < Len(g[1]) THEN PadRows(g, 1)
    ELSE IF Len(g[1]) < Len(g) THEN PadCols(g, 1)
    ELSE g

\* BioSimGUI.shrink
shrink(g) == IF IsWater(g) THEN g ELSE Pad(TrimPass(TrimPass(g)))

\* The first while-loop of shrink raises IndexError: island[0] of an empty
\* list, or island[1] when the one row left is all water.
RECURSIVE TrimTopRaises(_)
TrimTopRaises(g) ==
    IF g = <<>> THEN TRUE
    ELSE IF ~AllWater(g[1]) THEN FALSE
    ELSE IF Len(g) = 1 THEN TRUE
    ELSE IF AllWater(g[2]) THEN TrimTopRaises(Tail(g))
    ELSE FALSE

\* The second while-loop of shrink raises IndexError: island[j] with
\* j = len(island) - 1 of an empty list; island[j - 1] of a single row is that
\* row again, island[-1], which is then removed.
RECURSIVE TrimBottomRaises(_)
TrimBottomRaises(g) ==
    IF g = <<>> THEN TRUE
    ELSE IF ~AllWater(g[Len(g)]) THEN FALSE
    ELSE IF Len(g) = 1 THEN TRUE
    ELSE IF AllWater(g[Len(g) - 1]) THEN TrimBottomRaises(Front(g))
    ELSE FALSE

\* One pass of the for-loop of shrink raises IndexError.
TrimPassRaises(g) ==
    TrimTopRaises(Transpose(g)) \/ TrimBottomRaises(TrimTop(Transpose(g)))

\* The mutant of shrinkRaises: the early return of the all-water island left out.
shrinkRaisesUnguarded(g) ==
    \/ TrimPassRaises(g)
    \/ TrimPassRaises(TrimPass(g))
    \/ TrimPass(TrimPass(g)) = <<>>

\* BioSimGUI.shrink raises IndexError: in one of its loops, or at island[0]
\* of an empty result.
shrinkRaises(g) ==
    /\ ~IsWater(g)
    /\ \/ TrimPassRaises(g)
       \/ TrimPassRaises(TrimPass(g))
       \/ TrimPass(TrimPass(g)) = <<>>

-----------------------------------------------------------------------------
(* The Draw page of BioSim: pure forms of the handlers. *)

\* The mutant of bigger: both water cells added at the start of the row.
biggerOffCentre(g) ==
    IF Len(g[1]) >= MaxSide THEN g
    ELSE <<WaterRow(Len(g[1]) + 2)>>
         \o [r \in 1..Len(g) |-> <<"W", "W">> \o g[r]]
         \o <<WaterRow(Len(g[1]) + 2)>>

\* Draw.bigger
bigger(g) ==
    IF Len(g[1]) >= MaxSide THEN g
    ELSE <<WaterRow(Len(g[1]) + 2)>>
         \o [r \in 1..Len(g) |-> <<"W">> \o g[r] \o <<"W">>]
         \o <<WaterRow(Len(g[1]) + 2)>>

\* row[2:-2], island[2:-2]
Slice2(s) == SubSeq(s, 3, Len(s) - 2)

\* row[1:-1], island[1:-1]
Slice1(s) == SubSeq(s, 2, Len(s) - 1)

\* The mutant of smaller: the slices taken one cell too wide, [1:-1].
smallerWide(g) ==
    IF Len(g[1]) <= MinSide THEN g
    ELSE <<WaterRow(Len(g[1]) - 2)>>
         \o [r \in 1..Len(Slice1(g)) |-> <<"W">> \o Slice1(Slice1(g)[r]) \o <<"W">>]
         \o <<WaterRow(Len(g[1]) - 2)>>

\* The mutant of smaller: the rows kept are cut to row[2:-2] and given no
\* water cell at their ends.
smallerBare(g) ==
    IF Len(g[1]) <= MinSide THEN g
    ELSE <<WaterRow(Len(g[1]) - 2)>>
         \o [r \in 1..Len(Slice2(g)) |-> Slice2(Slice2(g)[r])]
         \o <<WaterRow(Len(g[1]) - 2)>>

\* Draw.smaller
smaller(g) ==
    IF Len(g[1]) <= MinSide THEN g
    ELSE <<WaterRow(Len(g[1]) - 2)>>
         \o [r \in 1..Len(Slice2(g)) |-> <<"W">> \o Slice2(Slice2(g)[r]) \o <<"W">>]
         \o <<WaterRow(Len(g[1]) - 2)>>

\* Draw.clear
clear(g) == [r \in 1..Len(g) |-> WaterRow(Len(g[1]))]

\* island[j] = island[j][:i] + t + island[j][i + 1:], with Python's 0-based i, j
SetCell(g, i, j, t) == [g EXCEPT ![j + 1] = [@ EXCEPT ![i + 1] = t]]

\* The mutant of mouseMoveEvent: the guard written with <= on the low side.
mouseMoveEventLoose(g, i, j, t) ==
    IF 0 <= i /\ i < Len(g[1]) - 1 /\ 0 <= j /\ j < Len(g) - 1
    THEN SetCell(g, i, j, t) ELSE g

\* Map.mouseMoveEvent with the left button down on the drawing map: the cell in
\* column i, row j takes the selected terrain t.
mouseMoveEvent(g, i, j, t) ==
    IF 0 < i /\ i < Len(g[1]) - 1 /\ 0 < j /\ j < Len(g) - 1
    THEN SetCell(g, i, j, t) ELSE g

-----------------------------------------------------------------------------
(* Autocomplete. Noise values and thresholds are in hundredths. *)

PerlinLower == -23      \* VARIABLE["perlin"]["lower"]
PerlinMiddle == 0       \* VARIABLE["perlin"]["middle"]
PerlinUpper == 20       \* VARIABLE["perlin"]["upper"]

\* The noise fields a PerlinNoise(octaves=4) object may hold: the object is
\* made anew, unseeded, on every Autocomplete.
NoiseSeeds == {1, 2}

\* noise([i / size, j / size]) of the noise object with this seed
Perlin(seed, i, j) == ((seed * 37 + i * 11 + j * 17) % 9) * 10 - 40

RECURSIVE SumTo(_, _)
SumTo(f, n) == IF n = 0 THEN 0 ELSE f[n] + SumTo(f, n - 1)

LandInRow(row) == Cardinality({c \in 1..Len(row) : row[c] # "W"})

LandCount(g) == SumTo([r \in 1..Len(g) |-> LandInRow(g[r])], Len(g))

\* Draw.center: <<center_i, center_j>>, 0-based
center(g) ==
    IF LandCount(g) = 0 THEN <<Len(g) \div 2, Len(g[1]) \div 2>>
    ELSE <<SumTo([r \in 1..Len(g) |-> (r - 1) * LandInRow(g[r])], Len(g))
               \div LandCount(g),
           SumTo([c \in 1..Len(g[1]) |->
                     (c - 1) * Cardinality({r \in 1..Len(g) : g[r][c] # "W"})],
                 Len(g[1])) \div LandCount(g)>>

\* noise - distance < t, where distance = sqrt(d2) / sqrt(2 * size ** 2) >= 0
BelowThreshold(noise, t, d2, size) ==
    \/ noise - t < 0
    \/ (noise - t) * (noise - t) * 2 * size * size < 10000 * d2

\* The terrain Autocomplete gives the water cell in row i, column j (0-based).
Classify(seed, i, j, c, size) ==
    LET d2 == (i - c[1]) * (i - c[1]) + (j - c[2]) * (j - c[2])
        n == Perlin(seed, i, j)
    IN IF BelowThreshold(n, PerlinLower, d2, size) THEN "W"
       ELSE IF BelowThreshold(n, PerlinMiddle, d2, size) THEN "L"
       ELSE IF BelowThreshold(n, PerlinUpper, d2, size) THEN "H"
       ELSE "M"

\* The mutant of autocomplete: the loops run over range(0, size - 1).
autocompleteEdge(g, seed) ==
    LET size == Len(g)
        c == center(g)
    IN [r \in 1..Len(g) |-> [k \in 1..Len(g[r]) |->
           IF r - 1 >= 0 /\ r - 1 < size - 1 /\ k - 1 >= 0 /\ k - 1 < size - 1
              /\ g[r][k] = "W"
           THEN Classify(seed, r - 1, k - 1, c, size)
           ELSE g[r][k]]]

\* The mutant of autocomplete: the test `!= "W"` left out, every interior
\* cell is classified.
autocompleteAll(g, seed) ==
    LET size == Len(g)
        c == center(g)
    IN [r \in 1..Len(g) |-> [k \in 1..Len(g[r]) |->
           IF r - 1 >= 1 /\ r - 1 < size - 1 /\ k - 1 >= 1 /\ k - 1 < size - 1
           THEN Classify(seed, r - 1, k - 1, c, size)
           ELSE g[r][k]]]

\* Draw.autocomplete
autocomplete(g, seed) ==
    LET size == Len(g)
        c == center(g)
    IN [r \in 1..Len(g) |-> [k \in 1..Len(g[r]) |->
           IF r - 1 >= 1 /\ r - 1 < size - 1 /\ k - 1 >= 1 /\ k - 1 < size - 1
              /\ g[r][k] = "W"
           THEN Classify(seed, r - 1, k - 1, c, size)
           ELSE g[r][k]]]

-----------------------------------------------------------------------------
(* The session: VARIABLE, the class parameters and the main window. *)

\* BioSim(island_map=geogr): a new simulation of this island, year 0, no
\* animals, not stopped, nothing simulated.
BioSim(g) == [map |-> g, year |-> 0, should_stop |-> FALSE, pop |-> <<>>, hist |-> 0]

\* {} : VARIABLE["history"] at the start and after .clear()
EmptyDict == [keys |-> FALSE, n |-> 0]

\* {"Herbivore": {"Age": [], ...}, "Carnivore": {...}}
ZeroHistory == [keys |-> TRUE, n |-> 0]

\* {} : VARIABLE["modified"] at the start and after .clear(). The dict is the
\* sequence of its items, [key, val], in insertion order.
EmptyLog == <<>>

Keys(d) == {d[n].key : n \in 1..Len(d)}

\* d[k] = v: the value of an existing key is replaced where the key stands, a
\* new key is appended.
DictSet(d, k, v) ==
    IF k \in Keys(d)
    THEN [n \in 1..Len(d) |-> IF d[n].key = k THEN [key |-> k, val |-> v] ELSE d[n]]
    ELSE Append(d, [key |-> k, val |-> v])

\* VARIABLE["selection"][species][name], for the parameter "F"
Selection(species, name) ==
    CASE species = "Herbivore" /\ name = "R-selected" -> [F |-> 20]
      [] species = "Herbivore" /\ name = "K-selected" -> [F |-> 75]
      [] species = "Carnivore" /\ name = "R-selected" -> [F |-> 50]
      [] species = "Carnivore" /\ name = "K-selected" -> [F |-> 1200]

SelectionParams(name) ==
    [Herbivore |-> Selection("Herbivore", name), Carnivore |-> Selection("Carnivore", name)]

\* plt.Figure(...) and fig.clear(): a figure without axes
Blank == [drawn |-> FALSE, n |-> 0]

\* The session a handler works on. construct is the outcome of the calls
\* BioSim(island_map=...) the handler makes: "ok", or "raises".
Session ==
    [island |-> island, biosim |-> biosim, history |-> history, modified |-> modified,
     selected |-> selected, params |-> params, tab |-> tab, previous |-> previous,
     dialog |-> dialog, figure |-> figure, raised |-> raised, runs |-> runs,
     construct |-> "ok"]

\* A call of BioSim.simulate in flight: left is the number of years it has still
\* to simulate; obj is <<>> while the object it runs on is VARIABLE["biosim"],
\* and holds that object once VARIABLE["biosim"] has been bound to another one.
Unbound(rs, old) ==
    [k \in 1..Len(rs) |-> IF rs[k].obj = <<>> THEN [rs[k] EXCEPT !.obj = old] ELSE rs[k]]

\* The mutant of restart: the island handed to BioSim as it was drawn.
restartUnshrunk(s) ==
    [s EXCEPT !.biosim = <<BioSim(s.island)>>,
              !.params = SelectionParams("R-selected"),
              !.history = EmptyDict]

\* BioSimGUI.restart; an exception of BioSim(...) leaves it after the island
\* has been assigned.
restart(s) ==
    IF shrinkRaises(s.island) THEN [s EXCEPT !.raised = "IndexError"]
    ELSE IF s.construct = "raises"
    THEN [s EXCEPT !.island = shrink(s.island), !.raised = "ValueError"]
    ELSE [s EXCEPT !.island = shrink(s.island),
                   !.biosim = <<BioSim(shrink(s.island))>>,
                   !.runs = IF s.biosim = <<>> THEN @ ELSE Unbound(@, s.biosim),
                   !.params = SelectionParams("R-selected"),
                   !.history = EmptyDict]

\* An attribute of VARIABLE["biosim"] is used while it is None.
NoBioSim(s) == [s EXCEPT !.raised = "AttributeError"]

\* Simulate.reset
simulateReset(s) ==
    IF s.biosim = <<>> THEN NoBioSim(s)
    ELSE [s EXCEPT !.biosim = <<[s.biosim[1] EXCEPT !.year = 0]>>,
                   !.history = ZeroHistory]

\* The mutant of stop: the flag cleared.
stopCleared(s) ==
    IF s.biosim = <<>> THEN NoBioSim(s)
    ELSE [s EXCEPT !.biosim = <<[s.biosim[1] EXCEPT !.should_stop = FALSE]>>]

\* Simulate.stop
stop(s) ==
    IF s.biosim = <<>> THEN NoBioSim(s)
    ELSE [s EXCEPT !.biosim = <<[s.biosim[1] EXCEPT !.should_stop = TRUE]>>]

\* The mutant of historyUpdate: the KeyError of the empty history not caught.
historyUpdateUncaught(s) ==
    IF s.biosim = <<>> THEN [s EXCEPT !.figure = Blank]
    ELSE IF ~s.history.keys THEN [s EXCEPT !.figure = Blank, !.raised = "KeyError"]
    ELSE [s EXCEPT !.figure = [drawn |-> TRUE, n |-> s.history.n]]

\* History.update: the figure is cleared; History.plot returns when there is
\* no simulation and when the history has no "Herbivore" key (KeyError), and
\* draws the three charts of the n iterations of the history otherwise.
historyUpdate(s) ==
    IF s.biosim = <<>> \/ ~s.history.keys THEN [s EXCEPT !.figure = Blank]
    ELSE [s EXCEPT !.figure = [drawn |-> TRUE, n |-> s.history.n]]

\* The mutant of resume: the flag left as it is.
resumeNot(s) == s

\* Main.change, index == 2: should_stop = False unless biosim is None
resume(s) ==
    IF s.biosim = <<>> THEN s
    ELSE [s EXCEPT !.biosim = <<[s.biosim[1] EXCEPT !.should_stop = FALSE]>>]

\* The mutant of changeBody: the restart made on the way from Draw to Populate only.
changeBodyToPopulate(s, index, asks) ==
    LET r == simulateReset(s)
        s2 == IF asks
              THEN IF r.raised # "none" THEN r
                   ELSE [r EXCEPT !.modified = EmptyLog, !.history = EmptyDict]
              ELSE IF index = 2 THEN resume(s)
              ELSE IF index = 3 THEN historyUpdate(s)
              ELSE s
        t == stop(s2)
        s3 == IF s2.raised # "none" THEN s2
              ELSE IF s.previous = 0 /\ index = 1 THEN restart(s2)
              ELSE IF s.previous = 2 /\ index # 2
              THEN IF t.raised # "none" THEN t ELSE historyUpdate(t)
              ELSE s2
    IN IF s3.raised # "none" THEN s3 ELSE [s3 EXCEPT !.previous = index]

\* The statements of Main.change after the confirmation: the reset on entering
\* Draw with land, the branch of the page entered, the branch of the page left.
\* An exception ends the handler where it is raised.
changeBody(s, index, asks) ==
    LET r == simulateReset(s)
        s2 == IF asks
              THEN IF r.raised # "none" THEN r
                   ELSE [r EXCEPT !.modified = EmptyLog, !.history = EmptyDict]
              ELSE IF index = 2 THEN resume(s)
              ELSE IF index = 3 THEN historyUpdate(s)
              ELSE s
        t == stop(s2)
        s3 == IF s2.raised # "none" THEN s2
              ELSE IF s.previous = 0 /\ index # 0 THEN restart(s2)
              ELSE IF s.previous = 2 /\ index # 2
              THEN IF t.raised # "none" THEN t ELSE historyUpdate(t)
              ELSE s2
    IN IF s3.raised # "none" THEN s3 ELSE [s3 EXCEPT !.previous = index]

\* The mutant of change: Cancel is not looked at, the reset runs whatever the answer.
changeIgnoresCancel(s, index, answer) ==
    LET asks == index = 0 /\ HasLand(s.island)
        s1 == IF asks THEN [s EXCEPT !.dialog = answer] ELSE s
    IN changeBody(s1, index, asks)

\* The mutant of change: on Cancel the tab is not set back, change returns at once.
changeCancelStays(s, index, answer) ==
    LET asks == index = 0 /\ HasLand(s.island)
        s1 == IF asks THEN [s EXCEPT !.dialog = answer] ELSE s
    IN IF asks /\ answer = "Cancel" THEN s1 ELSE changeBody(s1, index, asks)

\* Main.change(index), called with tabs.currentIndex() == index already; answer
\* is the button the user presses if the confirmation is shown.
RECURSIVE change(_, _, _)
change(s, index, answer) ==
    LET asks == index = 0 /\ HasLand(s.island)
        s1 == IF asks THEN [s EXCEPT !.dialog = answer] ELSE s
    IN IF asks /\ answer = "Cancel"
       THEN \* self.tabs.setCurrentIndex(self.previous); return
            \* currentChanged is emitted again when the index differs, and
            \* change(self.previous) runs inside this call.
            IF s.previous # index
            THEN change([s1 EXCEPT !.tab = s.previous], s.previous, answer)
            ELSE s1
       ELSE changeBody(s1, index, asks)

\* Populate.selection(name)
selection(s, name) ==
    LET s1 == [s EXCEPT !.history = EmptyDict, !.selected.selection = name]
        s2 == IF s1.biosim # <<>> /\ s1.biosim[1].year # 0
              THEN IF restart(s1).raised # "none" THEN restart(s1)
                   ELSE [restart(s1) EXCEPT !.dialog = "reset"]
              ELSE s1
    IN IF s2.raised # "none" THEN s2
       ELSE [s2 EXCEPT !.params = SelectionParams(name)]

\* str(n) as the sequence of its decimal digits
RECURSIVE Digits(_)
Digits(n) == IF n < 10 THEN <<n>> ELSE Digits(n \div 10) \o <<n % 10>>

\* f"{now.hour}:{now.minute}.{now.second} {now.microsecond}": the clock reading
\* is modelled by its microseconds, the rest of the text being equal
When(now) == Digits(now)

\* Advanced.set_parameter for a parameter other than "Movement" of an animal
set_parameter(s, species, parameter, value, now) ==
    [s EXCEPT !.params[species][parameter] = value,
              !.modified = DictSet(@, When(now), <<species, parameter, value>>)]

\* VARIABLE["parameters"][species] as the sequence of its items: the defaults
\* of the species at import, "Movement" added last with the items of
\* default_motion(); of each species one parameter is kept. The movable
\* terrains are written as the number 7.
Parameters(species) ==
    CASE species = "Herbivore" ->
            << <<"F", 10>>, <<"Movement", << <<"stride", 1>>, <<"movable", 7>> >> >> >>
      [] species = "Carnivore" ->
            << <<"F", 50>>, <<"Movement", << <<"stride", 1>>, <<"movable", 7>> >> >> >>
      [] species = "Fodder" -> << <<"Highland", 300>> >>

\* Herbivore.default_parameters()[parameter], Carnivore.default_parameters()[parameter]
default_parameters(species, parameter) ==
    LET items == Parameters(species)
    IN items[CHOOSE k \in 1..Len(items) : items[k][1] = parameter][2]

\* Advanced.reset_parameter for a parameter other than "Movement" of an animal:
\* the Herbivore gets the value of the ecotype, the Carnivore its default, and
\* the default is what is logged.
reset_parameter(s, species, parameter, now) ==
    LET current == s.selected.selection
        applied == IF species = "Herbivore" THEN Selection(species, current)[parameter]
                   ELSE default_parameters(species, parameter)
        value == default_parameters(species, parameter)
    IN [s EXCEPT !.params[species][parameter] = applied,
                 !.modified = DictSet(@, When(now), <<species, parameter, value>>)]

\* The loops of Advanced.reset_all_parameters over st = [log, i].
RECURSIVE MovementLoop(_, _, _, _, _)
MovementLoop(st, when, species, items, k) ==
    IF k > Len(items) THEN st
    ELSE MovementLoop([log |-> DictSet(st.log, when \o Digits(st.i),
                                       <<species, items[k][1], items[k][2]>>),
                       i |-> st.i + 1],
                      when, species, items, k + 1)

RECURSIVE ParameterLoop(_, _, _, _, _)
ParameterLoop(st, when, species, items, k) ==
    IF k > Len(items) THEN st
    ELSE LET st1 == IF items[k][1] # "Movement"
                    THEN [st EXCEPT !.log = DictSet(@, when \o Digits(st.i),
                                                    <<species, items[k][1], items[k][2]>>)]
                    ELSE MovementLoop(st, when, species, items[k][2], 1)
         IN ParameterLoop([st1 EXCEPT !.i = @ + 1], when, species, items, k + 1)

RECURSIVE SpeciesLoop(_, _, _, _)
SpeciesLoop(st, when, names, k) ==
    IF k > Len(names) THEN st
    ELSE SpeciesLoop(ParameterLoop(st, when, names[k], Parameters(names[k]), 1),
                     when, names, k + 1)

\* Advanced.reset_all_parameters: the parameters of the ecotype applied, and
\* the items of VARIABLE["parameters"] logged under when + f"{i}".
reset_all_parameters(s, now) ==
    [s EXCEPT !.params = SelectionParams(s.selected.selection),
              !.modified = SpeciesLoop([log |-> @, i |-> 0], When(now),
                                       <<"Herbivore", "Carnivore", "Fodder">>, 1).log]

\* The mutant of populate: i, j = VARIABLE["selected"]["pos"].
populateTransposed(s) ==
    LET i == s.selected.pos[1]
        j == s.selected.pos[2]
        batch == [loc |-> <<i + 1, j + 1>>,
                  pop |-> [k \in 1..s.selected.amount |->
                             [species |-> s.selected.species, age |-> 0,
                              weight |-> "None"]]]
    IN IF s.biosim = <<>> THEN NoBioSim(s)
       ELSE [s EXCEPT !.biosim = <<[s.biosim[1] EXCEPT !.pop = Append(@, batch)]>>]

\* Populate.populate: j, i = VARIABLE["selected"]["pos"], and one batch of
\* amount animals handed to add_population.
populate(s) ==
    LET j == s.selected.pos[1]
        i == s.selected.pos[2]
        batch == [loc |-> <<i + 1, j + 1>>,
                  pop |-> [k \in 1..s.selected.amount |->
                             [species |-> s.selected.species, age |-> 0,
                              weight |-> "None"]]]
    IN IF s.biosim = <<>> THEN NoBioSim(s)
       ELSE [s EXCEPT !.biosim = <<[s.biosim[1] EXCEPT !.pop = Append(@, batch)]>>]

\* Populate.reset: island.slaughter()
populateReset(s) ==
    IF s.biosim = <<>> THEN NoBioSim(s)
    ELSE [s EXCEPT !.biosim = <<[s.biosim[1] EXCEPT !.pop = <<>>]>>]

\* The mutant of dropEvent: the cell is not tested for water.
dropEventUntested(s, i, j, species, num, ok) ==
    LET sp == IF species = "click" THEN s.selected.species ELSE species
        s1 == [s EXCEPT !.dialog = "How many?"]
    IN IF sp = "str" THEN s
       ELSE IF ok
       THEN populate([s1 EXCEPT !.selected =
                [pos |-> <<i, j>>, species |-> sp, amount |-> num,
                 selection |-> s.selected.selection]])
       ELSE s1

\* Map.dropEvent on the map of the Populate page, at column i, row j: species is
\* the text dragged (or "click" for a press on the map), num and ok the answer
\* to "How many?".
dropEvent(s, i, j, species, num, ok) ==
    IF s.island[j + 1][i + 1] # "W"
    THEN LET sp == IF species = "click" THEN s.selected.species ELSE species
             s1 == [s EXCEPT !.dialog = "How many?"]
         IN IF sp = "str" THEN s     \* <class 'str'> + "" raises TypeError: return
            ELSE IF ok
            THEN populate([s1 EXCEPT !.selected =
                     [pos |-> <<i, j>>, species |-> sp, amount |-> num,
                      selection |-> s.selected.selection]])
            ELSE s1
    ELSE [s EXCEPT !.dialog = "water"]

\* Simulate.simulate, run to its end: years more years on the simulation, whose
\* per-iteration history is returned and stored.
simulate(s, years) ==
    IF s.biosim = <<>> THEN NoBioSim(s)
    ELSE LET b == [s.biosim[1] EXCEPT !.should_stop = FALSE,
                                      !.year = @ + years, !.hist = @ + years]
         IN [s EXCEPT !.biosim = <<b>>, !.history = [keys |-> TRUE, n |-> b.hist]]

\* Simulate.simulate up to the first event handled inside BioSim.simulate: the
\* stop flag is cleared and the call is in flight.
simulateBegin(s, years) ==
    IF s.biosim = <<>> THEN NoBioSim(s)
    ELSE [s EXCEPT !.biosim = <<[s.biosim[1] EXCEPT !.should_stop = FALSE]>>,
                   !.runs = Append(@, [obj |-> <<>>, left |-> years])]

\* The object the innermost call in flight runs on.
RunObject(s) ==
    LET f == s.runs[Len(s.runs)]
    IN IF f.obj = <<>> THEN s.biosim[1] ELSE f.obj[1]

\* The innermost call of BioSim.simulate at its checkpoint between two years:
\* it returns when the stop flag of its object is set or no year is left, and
\* Simulate.simulate stores the history returned; it simulates a year otherwise.
simulateYear(s) ==
    LET f == s.runs[Len(s.runs)]
        b == RunObject(s)
        b1 == [b EXCEPT !.year = @ + 1, !.hist = @ + 1]
        f1 == [f EXCEPT !.left = @ - 1]
    IN IF b.should_stop \/ f.left = 0
       THEN [s EXCEPT !.runs = Front(@), !.history = [keys |-> TRUE, n |-> b.hist]]
       ELSE IF f.obj = <<>>
       THEN [s EXCEPT !.biosim = <<b1>>, !.runs[Len(s.runs)] = f1]
       ELSE [s EXCEPT !.runs[Len(s.runs)] = [f1 EXCEPT !.obj = <<b1>>]]

\* Simulate.restart_years
restart_years(s) ==
    IF s.biosim = <<>> THEN NoBioSim(s)
    ELSE [stop(s) EXCEPT !.biosim = <<[stop(s).biosim[1] EXCEPT !.year = 0, !.hist = 0]>>,
                         !.history = ZeroHistory]

-----------------------------------------------------------------------------
(* ECOL100: pure forms of the handlers of Draw. *)

\* ECOL100 Draw.bigger
ecolBigger(g) ==
    IF Len(g[1]) >= EcolMaxSide THEN g
    ELSE <<WaterRow(Len(g[1]) + 2)>>
         \o [r \in 1..Len(g) |-> <<"W">> \o g[r] \o <<"W">>]
         \o <<WaterRow(Len(g[1]) + 2)>>

\* ECOL100 Draw.smaller
ecolSmaller(g) ==
    IF Len(g[1]) <= EcolMinSide THEN g
    ELSE <<WaterRow(Len(g[1]) - 2)>>
         \o [r \in 1..Len(Slice2(g)) |-> <<"W">> \o Slice2(Slice2(g)[r]) \o <<"W">>]
         \o <<WaterRow(Len(g[1]) - 2)>>

\* ECOL100 Draw.mouse_move with the left button down
mouse_move(g, i, j, t) ==
    IF i <= 0 \/ i >= Len(g[1]) - 1 \/ j <= 0 \/ j >= Len(g) - 1 THEN g
    ELSE SetCell(g, i, j, t)

-----------------------------------------------------------------------------
(* Initial states. *)

InitCommon ==
    /\ terrain = "W"
    /\ tab = 0
    /\ previous = 0
    /\ biosim = <<>>
    /\ history = EmptyDict
    /\ modified = EmptyLog
    /\ selected = [pos |-> <<>>, species |-> "str", amount |-> 0,
                   selection |-> "R-selected"]
    /\ params = SelectionParams("R-selected")
    /\ dialog = "none"
    /\ figure = Blank
    /\ raised = "none"
    /\ runs = <<>>
    /\ edits = 0
    /\ stroke = <<>>
    /\ ecol = WaterGrid(EcolInitSide, EcolInitSide)
    /\ ecolSelected = "W"

\* BioSimGUI(): the default island, the Draw page shown.
Init ==
    /\ app = "biosim"
    /\ island = WaterGrid(InitSide, InitSide)
    /\ InitCommon

\* Either program at its start.
InitEither ==
    /\ app \in {"biosim", "ecol100"}
    /\ island = WaterGrid(InitSide, InitSide)
    /\ InitCommon

\* The Draw page after Lowland was chosen and the cell at column 1, row 1 of
\* the default island painted with it.
InitPainted ==
    /\ app = "biosim"
    /\ island = mouseMoveEvent(WaterGrid(InitSide, InitSide), 1, 1, "L")
    /\ terrain = "L"
    /\ tab = 0
    /\ previous = 0
    /\ biosim = <<>>
    /\ history = EmptyDict
    /\ modified = EmptyLog
    /\ selected = [pos |-> <<>>, species |-> "str", amount |-> 0,
                   selection |-> "R-selected"]
    /\ params = SelectionParams("R-selected")
    /\ dialog = "none"
    /\ figure = Blank
    /\ raised = "none"
    /\ runs = <<>>
    /\ edits = 0
    /\ stroke = <<>>
    /\ ecol = WaterGrid(EcolInitSide, EcolInitSide)
    /\ ecolSelected = "W"

\* A grid with the cells of f painted: f[k] = <<i, j, t>>.
RECURSIVE Painted(_, _, _)
Painted(g, f, k) ==
    IF k = 0 THEN g ELSE SetCell(Painted(g, f, k - 1), f[k][1], f[k][2], f[k][3])

\* The Draw page holding any square water-bordered grid of a side up to
\* MaxGridSide with at most MaxLand cells of land.
InitGrids ==
    /\ app = "biosim"
    /\ \E side \in MinSide..MaxGridSide :
         \E f \in [1..MaxLand -> (1..(side - 2)) \X (1..(side - 2)) \X Terrains] :
            island = Painted(WaterGrid(side, side), f, MaxLand)
    /\ InitCommon

-----------------------------------------------------------------------------
(* Actions. *)

Commit(r) ==
    /\ island' = r.island
    /\ biosim' = r.biosim
    /\ history' = r.history
    /\ modified' = r.modified
    /\ selected' = r.selected
    /\ params' = r.params
    /\ tab' = r.tab
    /\ previous' = r.previous
    /\ dialog' = r.dialog
    /\ figure' = r.figure
    /\ raised' = r.raised
    /\ runs' = r.runs

\* The session at the entry of a handler: no message box shown, no exception.
Quiet == [Session EXCEPT !.dialog = "none", !.raised = "none"]

OnlyIsland(g) == Commit([Quiet EXCEPT !.island = g])

\* The user clicks the tab index and answers the confirmation, if one is shown.
Change(index, answer, outcome) ==
    /\ app = "biosim"
    /\ index # tab
    /\ Commit(change([Quiet EXCEPT !.tab = index, !.construct = outcome], index, answer))
    /\ UNCHANGED <<app, terrain, ecol, ecolSelected>>

\* Draw.color_clicked
ColorClicked(name) ==
    /\ app = "biosim" /\ tab = 0
    /\ terrain' = name
    /\ dialog' = "none"
    /\ raised' = "none"
    /\ UNCHANGED <<app, island, tab, previous, biosim, history, modified, selected,
                   params, figure, runs, ecol, ecolSelected>>

\* A stroke on the drawing map at column i, row j.
MouseMove(i, j) ==
    /\ app = "biosim" /\ tab = 0
    /\ OnlyIsland(mouseMoveEvent(island, i, j, terrain))
    /\ UNCHANGED <<app, terrain, ecol, ecolSelected>>

Bigger ==
    /\ app = "biosim" /\ tab = 0
    /\ OnlyIsland(bigger(island))
    /\ UNCHANGED <<app, terrain, ecol, ecolSelected>>

Smaller ==
    /\ app = "biosim" /\ tab = 0
    /\ OnlyIsland(smaller(island))
    /\ UNCHANGED <<app, terrain, ecol, ecolSelected>>

Autocomplete(seed) ==
    /\ app = "biosim" /\ tab = 0
    /\ OnlyIsland(autocomplete(island, seed))
    /\ UNCHANGED <<app, terrain, ecol, ecolSelected>>

Clear ==
    /\ app = "biosim" /\ tab = 0
    /\ OnlyIsland(clear(island))
    /\ UNCHANGED <<app, terrain, ecol, ecolSelected>>

\* A drop, or a press, on the map of the Populate page.
Drop(i, j, species, num, ok) ==
    /\ app = "biosim" /\ tab = 1
    /\ biosim # <<>> => Len(biosim[1].pop) < MaxBatches
    /\ Commit(dropEvent(Quiet, i, j, species, num, ok))
    /\ UNCHANGED <<app, terrain, ecol, ecolSelected>>

\* Populate.reset: "Slaughter population"
Slaughter ==
    /\ app = "biosim" /\ tab = 1
    /\ Commit(populateReset(Quiet))
    /\ UNCHANGED <<app, terrain, ecol, ecolSelected>>

\* The R-selected and K-selected buttons.
Select(name) ==
    /\ app = "biosim" /\ tab = 1
    /\ Commit(selection(Quiet, name))
    /\ UNCHANGED <<app, terrain, ecol, ecolSelected>>

Simulate(years) ==
    /\ app = "biosim" /\ tab = 2
    /\ biosim # <<>> => /\ biosim[1].year + years <= MaxYear
                        /\ biosim[1].hist + years <= MaxYear
    /\ Commit(simulate(Quiet, years))
    /\ UNCHANGED <<app, terrain, ecol, ecolSelected>>

\* The Simulate button, the events of the run being handled as they come.
SimulateBegin(years) ==
    /\ app = "biosim" /\ tab = 2
    /\ Len(runs) < MaxRuns
    /\ Commit(simulateBegin(Quiet, years))
    /\ UNCHANGED <<app, terrain, ecol, ecolSelected>>

\* The innermost run reaches its checkpoint.
SimulateYear ==
    /\ app = "biosim"
    /\ runs # <<>>
    /\ RunObject(Session).should_stop \/ runs[Len(runs)].left = 0
          \/ (RunObject(Session).year < MaxYear /\ RunObject(Session).hist < MaxYear)
    /\ Commit(simulateYear(Session))
    /\ UNCHANGED <<app, terrain, ecol, ecolSelected>>

Pause ==
    /\ app = "biosim" /\ tab = 2
    /\ Commit(stop(Quiet))
    /\ UNCHANGED <<app, terrain, ecol, ecolSelected>>

RestartYears ==
    /\ app = "biosim" /\ tab = 2
    /\ Commit(restart_years(Quiet))
    /\ UNCHANGED <<app, terrain, ecol, ecolSelected>>

SetParameter(species, parameter, value, now) ==
    /\ app = "biosim" /\ tab = 4
    /\ Commit(set_parameter(Quiet, species, parameter, value, now))
    /\ UNCHANGED <<app, terrain, ecol, ecolSelected>>

ResetParameter(species, parameter, now) ==
    /\ app = "biosim" /\ tab = 4
    /\ Commit(reset_parameter(Quiet, species, parameter, now))
    /\ UNCHANGED <<app, terrain, ecol, ecolSelected>>

ResetAllParameters(now) ==
    /\ app = "biosim" /\ tab = 4
    /\ Commit(reset_all_parameters(Quiet, now))
    /\ UNCHANGED <<app, terrain, ecol, ecolSelected>>

\* Advanced.reset: "Clear history"
ClearLog ==
    /\ app = "biosim" /\ tab = 4
    /\ Commit([Quiet EXCEPT !.modified = EmptyLog])
    /\ UNCHANGED <<app, terrain, ecol, ecolSelected>>

EcolFrame == UNCHANGED <<app, island, terrain, tab, previous, biosim, history, modified,
                         selected, params, dialog, figure, raised, runs>>

EcolColorClicked(name) ==
    /\ app = "ecol100"
    /\ ecolSelected' = name
    /\ UNCHANGED ecol
    /\ EcolFrame

EcolMouseMove(i, j) ==
    /\ app = "ecol100"
    /\ ecol' = mouse_move(ecol, i, j, ecolSelected)
    /\ UNCHANGED ecolSelected
    /\ EcolFrame

EcolBigger ==
    /\ app = "ecol100"
    /\ ecol' = ecolBigger(ecol)
    /\ UNCHANGED ecolSelected
    /\ EcolFrame

EcolSmaller ==
    /\ app = "ecol100"
    /\ ecol' = ecolSmaller(ecol)
    /\ UNCHANGED ecolSelected
    /\ EcolFrame

-----------------------------------------------------------------------------
(* Specifications. *)

Tabs == 0..4
Answers == {"Ok", "Cancel"}
Brushes == {"W", "L"}
Species == {"Herbivore", "Carnivore"}

\* An operation outside the budget of the specification.
Free == UNCHANGED <<edits, stroke>>

\* An operation counted against the budget of SpecDraw.
Counted == edits < MaxEdits /\ edits' = edits + 1 /\ UNCHANGED stroke

\* A stroke at column i, row j, counted and recorded in SpecResize.
Stroke(i, j) == edits < MaxStrokes /\ edits' = edits + 1 /\ stroke' = <<i, j>>

\* SpecShrink: the grids of InitGrids taken through the tabs, so that
\* restart normalises each of them, and each result again.
NextShrink ==
    \E index \in Tabs : \E answer \in Answers :
        Change(index, answer, "ok") /\ Free

SpecShrink == InitGrids /\ [][NextShrink]_vars

\* SpecDraw: up to MaxEdits editing operations on the Draw page, strokes near
\* the upper left corner, and any walk through the tabs.
DrawCoords == {0, 1, 2}

NextDraw ==
    \/ \E index \in Tabs : \E answer \in Answers : Change(index, answer, "ok") /\ Free
    \/ \E name \in Brushes : ColorClicked(name) /\ Free
    \/ \E i \in DrawCoords : \E j \in DrawCoords : MouseMove(i, j) /\ Counted
    \/ Bigger /\ Counted
    \/ Smaller /\ Counted
    \/ \E seed \in NoiseSeeds : Autocomplete(seed) /\ Counted
    \/ Clear /\ Counted

SpecDraw == Init /\ [][NextDraw]_vars

\* SpecResize: either program; any number of Bigger and Smaller, and up to
\* MaxStrokes strokes: outside the grid, on its border and inside it.
Targets(g) ==
    {<<-1, 1>>, <<0, 0>>, <<0, 1>>, <<1, 0>>, <<1, 1>>,
     <<Len(g) - 2, Len(g) - 2>>, <<Len(g) - 1, 1>>, <<1, Len(g) - 1>>,
     <<Len(g) - 1, Len(g) - 1>>, <<Len(g), 1>>, <<1, Len(g)>>}

NextResize ==
    \/ \E name \in Brushes : ColorClicked(name) /\ Free
    \/ \E t \in Targets(island) : MouseMove(t[1], t[2]) /\ Stroke(t[1], t[2])
    \/ Bigger /\ Free
    \/ Smaller /\ Free
    \/ \E name \in Brushes : EcolColorClicked(name) /\ Free
    \/ \E t \in Targets(ecol) : EcolMouseMove(t[1], t[2]) /\ Stroke(t[1], t[2])
    \/ EcolBigger /\ Free
    \/ EcolSmaller /\ Free

SpecResize == InitEither /\ [][NextResize]_vars

\* Spec: the workflow of BioSim. Strokes on the upper left corner of the Draw
\* page, where two cells can be painted; placements on those two cells on the
\* Populate page.
WorkCols == {0, 1, 2}
WorkRows == {0, 1}
PlaceCols == {1, 2}
SetValues == {30}
Amounts == {2}
Ticks == {7}

Next ==
    \/ \E index \in Tabs : \E answer \in Answers : Change(index, answer, "ok") /\ Free
    \/ \E name \in Brushes : ColorClicked(name) /\ Free
    \/ \E i \in WorkCols : \E j \in WorkRows : MouseMove(i, j) /\ Free
    \/ \E i \in PlaceCols : \E sp \in {"Herbivore", "click"} :
          \E num \in Amounts : \E ok \in BOOLEAN :
             Drop(i, 1, sp, num, ok) /\ Free
    \/ Slaughter /\ Free
    \/ \E name \in Ecotypes : Select(name) /\ Free
    \/ \E years \in 1..MaxYear : Simulate(years) /\ Free
    \/ Pause /\ Free
    \/ RestartYears /\ Free
    \/ \E value \in SetValues : \E now \in Ticks :
          SetParameter("Herbivore", "F", value, now) /\ Free
    \/ ClearLog /\ Free

Spec == Init /\ [][Next]_vars

\* SpecFail: the workflow when BioSim(island_map=...) may raise.
Outcomes == {"ok", "raises"}

NextFail ==
    \/ \E index \in Tabs : \E answer \in Answers : \E outcome \in Outcomes :
          Change(index, answer, outcome) /\ Free
    \/ \E name \in Brushes : ColorClicked(name) /\ Free
    \/ MouseMove(1, 1) /\ Free
    \/ \E num \in Amounts : Drop(1, 1, "Herbivore", num, TRUE) /\ Free
    \/ \E years \in 1..MaxYear : Simulate(years) /\ Free

SpecFail == Init /\ [][NextFail]_vars

\* A placement request, counted and recorded in SpecPlace.
Request(i, j, species, num, ok) ==
    edits < MaxEdits /\ edits' = edits + 1 /\ stroke' = <<i, j, species, num, ok>>

\* SpecPlace: islands painted near the upper left corner of the Draw page, and
\* up to MaxEdits placement requests on the cells of the Populate page's map
\* near its upper left corner, dragged or pressed.
PaintCells == {<<1, 1>>, <<2, 1>>}
PlaceCells == {<<1, 1>>, <<1, 2>>, <<2, 1>>}
Dragged == {"Carnivore", "click"}
Counts == {2}

NextPlace ==
    \/ \E index \in {0, 1} : \E answer \in Answers : Change(index, answer, "ok") /\ Free
    \/ \E name \in Brushes : ColorClicked(name) /\ Free
    \/ \E c \in PaintCells : MouseMove(c[1], c[2]) /\ Free
    \/ \E c \in PlaceCells : \E sp \in Dragged : \E num \in Counts : \E ok \in BOOLEAN :
          /\ c[2] < Len(island) /\ c[1] < Len(island[1])
          /\ Drop(c[1], c[2], sp, num, ok) /\ Request(c[1], c[2], sp, num, ok)
    \/ Slaughter /\ Free
    \/ \E name \in Ecotypes : Select(name) /\ Free

SpecPlace == Init /\ [][NextPlace]_vars

\* SpecAuto: strokes on the Draw page, with any brush, and Autocomplete after
\* them, or Autocomplete alone. A stroke paints a cell other than the one of
\* the stroke before it, so that `stroke` is left as it is by Autocomplete
\* only.
AutoCells == {<<1, 1>>, <<10, 10>>, <<11, 10>>}

NextAuto ==
    \/ \E name \in Terrains : ColorClicked(name) /\ Free
    \/ \E c \in AutoCells \ {stroke} : MouseMove(c[1], c[2]) /\ Stroke(c[1], c[2])
    \/ \E seed \in NoiseSeeds : Autocomplete(seed) /\ Counted

SpecAuto == Init /\ [][NextAuto]_vars

\* A change of parameters, counted and recorded in SpecLog.
Logged(op, now) == edits < MaxEdits /\ edits' = edits + 1 /\ stroke' = <<op, now>>

\* SpecLog: up to MaxEdits changes of parameters on the Advanced page, under
\* either ecotype. The key of the log holds the time of day only, so a reading
\* of the clock can come again, and the microseconds of one reading can be
\* those of another followed by a digit.
Clock == {5, 58}

NextLog ==
    \/ \E index \in {0, 1, 4} : \E answer \in Answers : Change(index, answer, "ok") /\ Free
    \/ \E name \in Ecotypes : Select(name) /\ Free
    \/ \E sp \in Species : \E value \in SetValues : \E now \in Clock :
          SetParameter(sp, "F", value, now) /\ Logged("set", now)
    \/ \E sp \in Species : \E now \in Clock :
          ResetParameter(sp, "F", now) /\ Logged("reset", now)
    \/ \E now \in Clock : ResetAllParameters(now) /\ Logged("all", now)
    \/ ClearLog /\ Free

SpecLog == Init /\ [][NextLog]_vars

\* SpecRun: the pages of the workflow on a painted island, with the events
\* handled during a run of BioSim.simulate.
NextRun ==
    \/ \E index \in Tabs \ {4} : \E answer \in Answers : Change(index, answer, "ok") /\ Free
    \/ \E years \in 1..MaxYear : SimulateBegin(years) /\ Free
    \/ SimulateYear /\ Free
    \/ Pause /\ Free
    \/ RestartYears /\ Free
    \/ \E name \in Ecotypes : Select(name) /\ Free

SpecRun == InitPainted /\ [][NextRun]_vars

-----------------------------------------------------------------------------
(* Shapes of a grid. *)

Square(g) == \A r \in 1..Len(g) : Len(g[r]) = Len(g)

\* Every cell of the outermost ring is water.
RingWater(g) ==
    /\ AllWater(g[1])
    /\ AllWater(g[Len(g)])
    /\ \A r \in 1..Len(g) : g[r][1] = "W" /\ g[r][Len(g[r])] = "W"

LandRows(g) == {r \in 1..Len(g) : ~AllWater(g[r])}

LandCols(g) == {c \in 1..Len(g[1]) : \E r \in 1..Len(g) : g[r][c] # "W"}

MinOf(S) == CHOOSE x \in S : \A y \in S : x <= y

MaxOf(S) == CHOOSE x \in S : \A y \in S : x >= y

\* Height and width of the bounding box of the land of a grid that has land.
BoxH(g) == MaxOf(LandRows(g)) - MinOf(LandRows(g)) + 1

BoxW(g) == MaxOf(LandCols(g)) - MinOf(LandCols(g)) + 1

\* The land of a grid, each cell by its place in the bounding box and its category.
Land(g) ==
    IF ~HasLand(g) THEN {}
    ELSE {<<r - MinOf(LandRows(g)), c - MinOf(LandCols(g)), g[r][c]>> :
             <<r, c>> \in {x \in (1..Len(g)) \X (1..Len(g[1])) : g[x[1]][x[2]] # "W"}}

\* Square, with exactly one ring of water around the bounding box of its land.
OneRing(g) ==
    /\ Square(g) /\ RingWater(g) /\ HasLand(g)
    /\ MinOf(LandRows(g)) = 2 /\ MaxOf(LandRows(g)) = Len(g) - 1
    /\ MinOf(LandCols(g)) = 2 /\ MaxOf(LandCols(g)) = Len(g) - 1

\* A step in which the Draw page is left for another page.
LeavesDraw == previous = 0 /\ previous' # 0

-----------------------------------------------------------------------------
(* Claims on the normalisation. *)

\* C1: shrink is idempotent, shrink(shrink(g)) = shrink(g) for every square
\* water-bordered grid g, and a square grid with exactly one ring of water
\* around its land is returned unchanged.
C1_ShrinkIdempotent ==
    /\ shrink(shrink(island)) = shrink(island)
    /\ OneRing(island) => shrink(island) = island

\* A minimal grid with two cells of land has been through restart.
C1_Witness == previous # 0 /\ OneRing(island) /\ LandCount(island) = 2

\* C2: shrink loses and alters no land: the result has as many non-water cells
\* as the input, each with its category and its place relative to the others.
C2_ShrinkKeepsLand ==
    [][LeavesDraw => /\ LandCount(island') = LandCount(island)
                     /\ Land(island') = Land(island)]_vars

\* A grid whose two cells of land lie in one line has been trimmed and padded.
C2_Witness ==
    /\ previous # 0 /\ LandCount(island) = 2 /\ Len(island) = 4
    /\ BoxW(island) = 1 /\ BoxH(island) = 2

\* C3: for a grid with land the result of shrink is square, its outer ring
\* is water and its side is max(h, w) + 2, h and w the height and the width of
\* the bounding box of the land.
C3_ShrinkMinimalSquare ==
    [][LeavesDraw /\ HasLand(island) =>
          /\ Square(island') /\ RingWater(island')
          /\ Len(island') = (IF BoxH(island) >= BoxW(island) THEN BoxH(island)
                             ELSE BoxW(island)) + 2]_vars

\* A grid whose land is one cell high and two wide has been normalised to side 4.
C3_Witness ==
    /\ previous # 0 /\ LandCount(island) = 2 /\ Len(island) = 4
    /\ BoxH(island) = 1 /\ BoxW(island) = 2

-----------------------------------------------------------------------------
(* Claims on editing the island. *)

\* C4: in every state reached by strokes, Bigger, Smaller, Autocomplete, Clear
\* and the normalisation at tab changes, the island is square and every cell
\* of its outermost ring is water.
C4_SquareWaterRing == Square(island) /\ RingWater(island)

\* An island edited twice, with land, has been normalised.
C4_Witness ==
    /\ previous # 0 /\ edits >= 2
    /\ HasLand(island) /\ Len(island) < InitSide

\* C5: from the default island, under Bigger and Smaller, the side of the grid
\* stays within [4, 44] and is even.
C5_Original ==
    /\ Len(island) >= MinSide /\ Len(island) <= MaxSide
    /\ Len(island) % 2 = 0

\* C6 as claimed: below side 44, Bigger then Smaller gives the grid back, in
\* BioSim and in ECOL100.
C6_Original ==
    /\ Len(island[1]) < MaxSide => smaller(bigger(island)) = island
    /\ Len(ecol[1]) < MaxSide => ecolSmaller(ecolBigger(ecol)) = ecol

\* C6, amended: Bigger then Smaller gives the grid back when its side is below
\* the limit of Bigger, 44 in BioSim and 26 in ECOL100.
C6_RoundTrip ==
    /\ Len(island[1]) < MaxSide => smaller(bigger(island)) = island
    /\ Len(ecol[1]) < EcolMaxSide => ecolSmaller(ecolBigger(ecol)) = ecol

\* A grown grid with land beside its border, below the limit.
C6_Witness ==
    /\ Len(island) > InitSide /\ Len(island) < MaxSide
    /\ island[2][2] # "W"

\* The target <<i, j>> is on the outer border of the grid g or outside it.
Outer(t, g) ==
    \/ t[1] <= 0 \/ t[1] >= Len(g[1]) - 1
    \/ t[2] <= 0 \/ t[2] >= Len(g) - 1

\* C7: a stroke whose target is on the outer border or outside the grid
\* changes no cell and no dimension of the island, in BioSim and in ECOL100.
C7_BorderStrokeNoChange ==
    [][/\ edits' = edits + 1
       /\ Outer(stroke', IF app = "biosim" THEN island ELSE ecol)
       => island' = island /\ ecol' = ecol]_vars

\* A stroke with a land brush has been made on the border.
C7_Witness ==
    /\ edits >= 1 /\ stroke # <<>>
    /\ app = "biosim" /\ terrain # "W" /\ Outer(stroke, island)
    /\ stroke[1] = 0 /\ stroke[2] = 1

-----------------------------------------------------------------------------
(* Claims on the workflow. *)

\* A step in which the confirmation was shown.
Asked == dialog' \in Answers

\* C8 as claimed: leaving Draw with land on the grid asks for a confirmation.
C8_Original == [][LeavesDraw /\ HasLand(island) => Asked]_vars

\* C8, amended: the confirmation is asked when Draw is entered with land on
\* the grid, never when Draw is left; on Cancel the page shown and
\* Main.previous are those the user came from and the island, the history,
\* the audit log and the simulation are unchanged, but for the stop flag of
\* the simulation, cleared when the user came from Simulate.
C8_ConfirmOnEnteringDraw ==
    [][/\ LeavesDraw => ~Asked
       /\ previous # 0 /\ previous' = 0 /\ HasLand(island) => dialog' = "Ok"
       /\ dialog' = "Cancel" =>
            /\ previous # 0 /\ previous' = previous /\ tab' = tab
            /\ island' = island /\ history' = history /\ modified' = modified
            /\ params' = params
            /\ biosim' = <<[biosim[1] EXCEPT !.should_stop =
                               IF previous = 2 THEN FALSE ELSE @]>>]_vars

\* The user has cancelled the switch to Draw after a simulation and a
\* parameter change.
C8_Witness ==
    /\ dialog = "Cancel" /\ previous # 0 /\ tab = previous
    /\ biosim[1].year > 0 /\ history.n > 0 /\ modified # EmptyLog

\* C9: after every completed transition out of Draw the island is the
\* normalised island of the Draw page, the simulation is a new one made from
\* it (year 0, no animals) and the history is empty.
C9_RestartOnLeavingDraw ==
    [][LeavesDraw => /\ island' = shrink(island)
                     /\ biosim' = <<BioSim(island')>>
                     /\ biosim'[1].pop = <<>> /\ biosim'[1].year = 0
                     /\ history' = EmptyDict]_vars

\* Draw has been left with land on a grid that the normalisation made smaller.
C9_Witness ==
    /\ previous # 0 /\ HasLand(island) /\ Len(island) < InitSide
    /\ biosim = <<BioSim(island)>> /\ history = EmptyDict

\* C10: after every completed transition out of Draw the audit log is empty.
C10_Original == [][LeavesDraw => modified' = EmptyLog]_vars

\* C11: on the pages Populate, Simulate, History and Advanced there is a
\* simulation and it was made from the island of the session; there is none
\* only until Draw is left for the first time, and no handler meets a missing
\* simulation (construction of the simulation succeeding).
C11_SimulationReady ==
    [][/\ tab' # 0 => biosim' # <<>> /\ biosim'[1].map = island'
       /\ LeavesDraw => biosim' # <<>>
       /\ biosim # <<>> => biosim' # <<>>
       /\ raised' # "AttributeError"]_vars

\* Animals have been placed and a simulation run and paused on an island
\* that the normalisation made smaller.
C11_Witness ==
    /\ tab = 2 /\ biosim # <<>> /\ Len(island) < InitSide
    /\ biosim[1].map = island
    /\ Len(biosim[1].pop) > 0 /\ biosim[1].year > 0 /\ biosim[1].should_stop

\* C12: when the construction of the simulation may fail on leaving Draw, no
\* exception of it leaves the handler, Main.previous follows the page shown,
\* and on a page other than Draw there is a simulation made from the island.
C12_Original ==
    /\ raised = "none"
    /\ previous = tab
    /\ tab # 0 => biosim # <<>> /\ biosim[1].map = island

\* What History.update draws from the history h.
Drawn(h) == IF h.keys THEN [drawn |-> TRUE, n |-> h.n] ELSE Blank

\* C13: every completed change from the Simulate page to another page leaves
\* the stop flag of the simulation set and the figure of the History page
\* redrawn from the history; a run in flight on that simulation whose next
\* checkpoint comes with the flag set simulates no further year.
C13_LeavingSimulateStops ==
    [][/\ previous = 2 /\ previous' # 2 =>
            /\ biosim'[1].should_stop
            /\ biosim'[1].year = (IF dialog' = "Ok" THEN 0 ELSE biosim[1].year)
            /\ figure' = Drawn(history')
       /\ runs # <<>> /\ Len(runs') < Len(runs) /\ RunObject(Session).should_stop =>
            biosim' = biosim
      ]_vars

\* The Simulate page has been left during a run, and the run has then ended at
\* its checkpoint, handing over its history.
C13_Witness ==
    /\ previous = 3 /\ runs = <<>>
    /\ biosim[1].should_stop /\ biosim[1].year = 1
    /\ history = [keys |-> TRUE, n |-> 1] /\ figure = Blank

\* C14: every completed change to the Simulate page leaves the stop flag of the
\* simulation cleared, and so does every click on Simulate, after which the
\* run is in flight on that simulation.
C14_EnteringSimulateResumes ==
    [][/\ previous # 2 /\ previous' = 2 => ~biosim'[1].should_stop
       /\ Len(runs') > Len(runs) =>
            /\ ~biosim'[1].should_stop
            /\ runs'[Len(runs')].obj = <<>>
      ]_vars

\* A run is in flight on a simulation that was paused in its first year and
\* taken through the History page.
C14_Witness ==
    /\ tab = 2 /\ runs # <<>> /\ runs[1].obj = <<>>
    /\ ~biosim[1].should_stop /\ biosim[1].year = 1
    /\ figure = [drawn |-> TRUE, n |-> 1]

\* No simulation has run: there is no simulation, or its year is 0, or the
\* history holds no iteration.
NothingRun == biosim = <<>> \/ biosim[1].year = 0 \/ history.n = 0

\* C15 as stated: entering the History page when no simulation has run raises
\* nothing and leaves the figure with nothing rendered.
C15_Original ==
    [][tab # 3 /\ tab' = 3 /\ NothingRun => raised' = "none" /\ figure' = Blank]_vars

\* C15: entering the History page raises nothing in any state; the figure is
\* left with nothing rendered when there is no simulation or the history is the
\* empty mapping (after a restart or a change of ecotype), and with the three
\* charts drawn over the series of the history otherwise, which are empty after
\* a reset of the iteration count.
C15_HistoryNeverFails ==
    [][tab # 3 /\ tab' = 3 =>
          /\ raised' = "none" /\ previous' = 3
          /\ figure' = IF biosim = <<>> THEN Blank ELSE Drawn(history)
      ]_vars

\* The History page shows the three charts with empty series after the iteration
\* count was reset on the Simulate page.
C15_Witness ==
    /\ previous = 3 /\ figure = [drawn |-> TRUE, n |-> 0]
    /\ biosim[1].year = 0 /\ history = ZeroHistory /\ raised = "none"

\* The step is a placement request on the Populate page: stroke' holds its
\* column, row, species dragged ("click" for a press), count and answer.
Requested == edits' # edits

\* The species of the request: the one dragged, or the one selected before.
Chosen == IF stroke'[3] = "click" THEN selected.species ELSE stroke'[3]

\* The batch the claim describes for the request.
BatchOf(x, y, sp, n) ==
    [loc |-> <<y + 1, x + 1>>,
     pop |-> [k \in 1..n |-> [species |-> sp, age |-> 0, weight |-> "None"]]]

\* C16: a placement request of n animals, confirmed, on a cell of the displayed
\* island at column x, row y that is not Water, with a species chosen, hands
\* add_population exactly one batch, of location (y + 1, x + 1) and n entries of
\* the species with age 0 and no weight, and the cell of the simulation's map
\* at that location, counted from 1, is the cell displayed and not Water.
C16_PlacementBatch ==
    [][Requested /\ island[stroke'[2] + 1][stroke'[1] + 1] # "W"
          /\ stroke'[5] /\ Chosen # "str" =>
          LET x == stroke'[1]
              y == stroke'[2]
              b == BatchOf(x, y, Chosen, stroke'[4])
          IN /\ raised' = "none"
             /\ biosim'[1].pop = Append(biosim[1].pop, b)
             /\ biosim'[1].map[b.loc[1]][b.loc[2]] = island[y + 1][x + 1]
             /\ biosim'[1].map[b.loc[1]][b.loc[2]] # "W"
      ]_vars

\* Two Carnivores have been placed on a cell whose transposed cell is Water.
C16_Witness ==
    /\ tab = 1 /\ biosim # <<>> /\ Len(biosim[1].pop) = 1
    /\ biosim[1].pop[1] = BatchOf(1, 2, "Carnivore", 2)
    /\ island[3][2] # "W" /\ island[2][3] = "W"
    /\ stroke = <<1, 2, "Carnivore", 2, TRUE>>

C18_Original ==
    [][Requested /\ stroke'[3] = "click" /\ selected.species = "str" =>
          /\ dialog' = "no selection"
          /\ biosim' = biosim /\ selected' = selected /\ island' = island
      ]_vars

\* The step is a change of parameters on the Advanced page: stroke' holds the
\* operation and the reading of the clock.
Changed == edits' # edits

\* d is the beginning of e, item by item.
Prefix(d, e) == Len(d) <= Len(e) /\ \A n \in 1..Len(d) : e[n] = d[n]

\* C19 as stated: every change of parameters adds at least one item under a key
\* the log did not hold, and leaves every item the log held as and where it
\* was.
C19_Original ==
    [][Changed => /\ Keys(modified') \ Keys(modified) # {}
                  /\ Prefix(modified, modified')]_vars

\* The items of the log d whose keys are in ks, in the order of iteration.
RECURSIVE Items(_, _)
Items(d, ks) ==
    IF d = <<>> THEN <<>>
    ELSE IF d[1].key \in ks THEN <<d[1]>> \o Items(Tail(d), ks) ELSE Items(Tail(d), ks)

\* The items one reset-all at the clock reading now is to log, in order: the
\* species in the order Herbivore, Carnivore, Fodder, the parameters of each in
\* the order of their definition, the items of Movement in the place of it.
ResetAllItems(now) == reset_all_parameters([Quiet EXCEPT !.modified = EmptyLog], now).modified

\* C20 as stated: after a reset-all the log, iterated, yields for that
\* invocation one item for every species, parameter and item of Movement, the
\* keys made of the clock reading and pairwise distinct suffixes, the species
\* in the order Herbivore, Carnivore, Fodder and the parameters in the order of
\* their definition.
C20_Original ==
    [][Changed /\ stroke'[1] = "all" =>
          LET want == ResetAllItems(stroke'[2])
          IN /\ Len(want) = 7
             /\ \A m, n \in 1..Len(want) : m # n => want[m].key # want[n].key
             /\ [n \in 1..Len(want) |-> want[n].val[1]] =
                   <<"Herbivore", "Herbivore", "Herbivore",
                     "Carnivore", "Carnivore", "Carnivore", "Fodder">>
             /\ Items(modified', Keys(want)) = want
      ]_vars

-----------------------------------------------------------------------------
(* Claims on Autocomplete. *)

\* The step is an Autocomplete of SpecAuto: counted, and no stroke.
Autocompleted == edits' # edits /\ stroke' = stroke

\* The cell of the grid g in column t[1], row t[2], counted from 0.
CellAt(g, t) == g[t[2] + 1][t[1] + 1]

\* The cell in row r, column k, counted from 1, is on the outermost ring of g.
OnRing(g, r, k) == r = 1 \/ r = Len(g) \/ k = 1 \/ k = Len(g[r])

\* C21 as stated: Autocomplete leaves the cell the user has painted as it is,
\* whatever the brush, Water included, leaves the border Water and the
\* dimensions as they are.
C21_Original ==
    [][Autocompleted /\ stroke # <<>> =>
          /\ CellAt(island', stroke) = CellAt(island, stroke)
          /\ Len(island') = Len(island) /\ RingWater(island')]_vars

\* C21: Autocomplete changes only cells that are Water and not on the border:
\* every cell of land keeps its category, painted or not, every cell of the
\* border stays Water and the dimensions are unchanged; a cell the user has
\* painted Water is classified as any other Water cell.
C21_AutocompleteFrame ==
    [][Autocompleted =>
          /\ Len(island') = Len(island)
          /\ \A r \in 1..Len(island) :
                /\ Len(island'[r]) = Len(island[r])
                /\ \A k \in 1..Len(island[r]) :
                      /\ island[r][k] # "W" => island'[r][k] = island[r][k]
                      /\ OnRing(island, r, k) => island'[r][k] = "W"
      ]_vars

\* Autocomplete has run after a stroke of Highland beside the border: the cell
\* is Highland still, and there is other land.
C21_Witness ==
    /\ edits = 2 /\ stroke = <<1, 1>> /\ terrain = "H"
    /\ CellAt(island, stroke) = "H" /\ LandCount(island) > 1

\* C22 as stated: the grid Autocomplete gives depends on the grid it starts
\* from only, not on the noise object of the run: whichever object
\* PerlinNoise(octaves=4) returns, the result is the same.
C22_Original ==
    [][Autocompleted => \A seed \in NoiseSeeds : island' = autocomplete(island, seed)]_vars

-----------------------------------------------------------------------------
(* Further claims on the normalisation and on the resizing. *)

\* The grid has one all-water line, and no more, on each side of its land.
OneLineEachSide(t) ==
    /\ AllWater(t[1]) /\ ~AllWater(t[2])
    /\ AllWater(t[Len(t)]) /\ ~AllWater(t[Len(t) - 1])

\* C23: shrink raises no IndexError and returns no empty grid for any square
\* water-bordered grid: the all-water grid is returned as it is, and a grid
\* with land, be it one cell or land in every row and column within the
\* border, is trimmed to one all-water row and one all-water column on each
\* side of the bounding box of its land before it is made square.
C23_ShrinkTerminates ==
    /\ raised = "none"
    /\ ~shrinkRaises(island)
    /\ shrink(island) # <<>>
    /\ IsWater(island) => shrink(island) = island
    /\ HasLand(island) =>
          LET t == TrimPass(TrimPass(island))
          IN /\ Len(t) = BoxH(island) + 2 /\ Len(t[1]) = BoxW(island) + 2
             /\ OneLineEachSide(t) /\ OneLineEachSide(Transpose(t))

\* A grid with land in every row and column within its border has been
\* through restart.
C23_Witness ==
    /\ previous # 0 /\ raised = "none" /\ Len(island) = 4
    /\ LandRows(island) = {2, 3} /\ LandCols(island) = {2, 3}

\* The grid t with top and bottom all-water rows and left and right all-water
\* columns added.
Framed(t, top, bottom, left, right) ==
    LET w == Len(t[1]) + left + right
    IN [k \in 1..top |-> WaterRow(w)]
       \o [r \in 1..Len(t) |-> WaterRow(left) \o t[r] \o WaterRow(right)]
       \o [k \in 1..bottom |-> WaterRow(w)]

\* The lines missing to make the trimmed grid t square: rows, then columns.
Missing(t) ==
    <<IF Len(t) < Len(t[1]) THEN Len(t[1]) - Len(t) ELSE 0,
      IF Len(t[1]) < Len(t) THEN Len(t) - Len(t[1]) ELSE 0>>

\* C24 as stated: of the k lines added to the trimmed grid, the low side, top
\* or left, gets ceil(k/2) and the high side, bottom or right, floor(k/2).
C24_Original ==
    [][LeavesDraw /\ HasLand(island) =>
          LET t == TrimPass(TrimPass(island))
              k == Missing(t)
          IN island' = Framed(t, (k[1] + 1) \div 2, k[1] \div 2,
                                 (k[2] + 1) \div 2, k[2] \div 2)]_vars

\* C24: of k rows added to the trimmed grid the top gets ceil(k/2) and the
\* bottom floor(k/2), the first row going on top; of k columns added the right
\* gets ceil(k/2) and the left floor(k/2), the first column going to the right.
C24_PadAlternates ==
    [][LeavesDraw /\ HasLand(island) =>
          LET t == TrimPass(TrimPass(island))
              k == Missing(t)
          IN island' = Framed(t, (k[1] + 1) \div 2, k[1] \div 2,
                                 k[2] \div 2, (k[2] + 1) \div 2)]_vars

\* Land two cells high and one wide has been normalised: the one column added
\* stands to the right of it.
C24_Witness ==
    /\ previous # 0 /\ Len(island) = 4
    /\ LandRows(island) = {2, 3} /\ LandCols(island) = {2}

\* The grid n holds the grid g in its middle, one ring of water around it.
Centred(n, g) ==
    /\ Len(n) = Len(g) + 2
    /\ \A r \in 1..Len(n) : Len(n[r]) = Len(g[1]) + 2
    /\ \A r \in 1..Len(g) : \A c \in 1..Len(g[r]) : n[r + 1][c + 1] = g[r][c]
    /\ RingWater(n)

\* C25: Bigger leaves a grid of side 44 or more as it is; a smaller grid it
\* turns into one of side + 2 that holds the old grid in its middle, every
\* cell as it was, within one ring of water.
C25_BiggerCentred ==
    IF Len(island) >= MaxSide THEN bigger(island) = island
    ELSE Centred(bigger(island), island)

\* The island, painted beside its border, has been grown to the side at which
\* Bigger returns.
C25_Witness ==
    /\ app = "biosim" /\ Len(island) >= MaxSide /\ HasLand(island)
    /\ stroke = <<1, 1>> /\ island[(Len(island) - InitSide) \div 2 + 2]
                                  [(Len(island) - InitSide) \div 2 + 2] # "W"

\* The grid n is the grid g without its two outermost rings, one ring of
\* water around the rest.
Stripped(n, g) ==
    /\ Len(n) = Len(g) - 2
    /\ \A r \in 1..Len(n) : Len(n[r]) = Len(g[1]) - 2
    /\ \A r \in 2..(Len(n) - 1) : \A c \in 2..(Len(n) - 1) : n[r][c] = g[r + 1][c + 1]
    /\ RingWater(n)

\* C26: Smaller leaves a grid of side 4 or less as it is; of a larger grid it
\* keeps the rows and columns 2 to side - 3, counted from 0, within a ring of
\* fresh water, so that the side is side - 2 and the land in the rows and
\* columns 1 and side - 2 is gone; in BioSim and in ECOL100.
C26_SmallerStrips ==
    /\ IF Len(island) <= MinSide THEN smaller(island) = island
       ELSE Stripped(smaller(island), island)
    /\ IF Len(ecol) <= EcolMinSide THEN ecolSmaller(ecol) = ecol
       ELSE Stripped(ecolSmaller(ecol), ecol)

\* Land painted beside the border of the default island is gone after Smaller.
C26_Witness ==
    /\ app = "biosim" /\ stroke = <<1, 1>> /\ terrain # "W"
    /\ Len(island) = InitSide - 2 /\ IsWater(island)

-----------------------------------------------------------------------------
(* Further claims on the workflow. *)

\* The step is a switch to the Draw page that the user has cancelled.
Cancelled == dialog' = "Cancel"

\* What a cancelled switch to the Draw page leaves as it was, the simulation
\* apart.
CancelFrame ==
    /\ tab' = previous /\ previous' = previous
    /\ island' = island /\ history' = history /\ modified' = modified
    /\ params' = params /\ selected' = selected /\ runs' = runs

\* C27 as stated: after a cancelled switch to the Draw page the page shown and
\* Main.previous are the page the user came from, and the island, the
\* simulation, the history and the log are exactly as before.
C27_Original == [][Cancelled => CancelFrame /\ biosim' = biosim]_vars

\* C27: after a cancelled switch to the Draw page the page shown and
\* Main.previous are the page the user came from; the island, the history and
\* the log are as before, and so is the simulation, its map, year and
\* population, but for its stop flag, which is cleared when the user came from
\* the Simulate page; nothing is restarted and nothing reset.
C27_CancelKeepsSession ==
    [][Cancelled =>
          /\ CancelFrame
          /\ biosim' = <<[biosim[1] EXCEPT !.should_stop = @ /\ previous # 2]>>
      ]_vars

\* The switch to Draw has been cancelled on the Simulate page, with animals
\* placed, a year simulated and a parameter changed: the stop flag is cleared.
C27_Witness ==
    /\ dialog = "Cancel" /\ tab = 2 /\ previous = 2
    /\ Len(biosim[1].pop) > 0 /\ biosim[1].year > 0 /\ ~biosim[1].should_stop
    /\ history.n > 0 /\ Len(modified) > 0

-----------------------------------------------------------------------------
(* Further claims on the parameters. *)

\* The item n of the log e was written since the log was d.
WrittenSince(d, e, n) == n \in 1..Len(e) /\ (n > Len(d) \/ e[n] # d[n])

\* C28 as stated: every item that a set, a reset or a reset-all writes to the
\* log for a parameter of an animal holds the value the parameter has after
\* the operation.
C28_Original ==
    [][Changed =>
          \A n \in 1..Len(modified') :
              /\ WrittenSince(modified, modified', n)
              /\ modified'[n].val[1] \in Species
              /\ modified'[n].val[2] = "F"
              => modified'[n].val[3] = params'[modified'[n].val[1]][modified'[n].val[2]]
      ]_vars

\* C29 as stated: with no parameter set or reset by hand, the parameters of
\* the animals are those of the ecotype selected, whatever pages were visited
\* and whatever was restarted.
C29_Original == params = SelectionParams(selected.selection)

-----------------------------------------------------------------------------
(* Further claims on the simulation. *)

\* The innermost call of BioSim.simulate returns in this step.
Halted == Len(runs') < Len(runs)

\* The Draw page is shown after a confirmed reset, the history cleared and the
\* year 0, while a call of BioSim.simulate begun on the Simulate page is still
\* in flight.
ResetInFlight ==
    /\ tab = 0 /\ previous = 0 /\ dialog = "Ok"
    /\ runs # <<>> /\ biosim # <<>>
    /\ history = EmptyDict /\ biosim[1].year = 0

\* C30 as stated: when the switch to the Draw page is confirmed while a call
\* of BioSim.simulate is in flight, then once the call has returned at its
\* checkpoint the history holds no iteration and the year is 0.
C30_Original ==
    [][ResetInFlight /\ Halted => history'.n = 0 /\ biosim'[1].year = 0]_vars

====
